---- MODULE Spec2Model ----
(***************************************************************************)
(* A model of src/app.py: the tokenizer adapters (tokenize_gpt2,           *)
(* tokenize_gpt4, tokenize_bert, tokenize_t5, tokenize_llama2,             *)
(* tokenize_phi3), the colouring of tokens and the /tokenize request       *)
(* handler.  Text and tokens are strings; a token list is a sequence of    *)
(* strings.  The external tokenizer libraries (tiktoken, transformers)     *)
(* are the environment: each primary call either returns a token list or   *)
(* raises one of Python's exception classes.                               *)
(***************************************************************************)
EXTENDS Integers, Sequences, FiniteSets, TLC

\* ------------------------------------------------------------------ bounds
\* Longest request text of the request specification (Spec).
MaxTextLen == 2
\* Longest text of the segmenter specification (SegSpec).
MaxSegLen == 6
\* Length of the non-empty token list a primary call returns on success.
MaxTokens == 2

\* --------------------------------------------------------------- characters
\* Characters for which str.isspace() is true (a sample of them).
Whitespace == {" ", "\t", "\n"}
\* The punctuation tokenize_t5 forces a boundary at.
T5Punctuation == {".", ",", "!", "?", ";", ":"}
\* The word-start marker tokenize_t5 prefixes, the one character U+2581
\* (LOWER ONE EIGHTH BLOCK); "_" stands for it here, strings of the model
\* being ASCII.  No input alphabet of the model holds "_".
Marker == "_"

\* The characters request texts are drawn from.
RequestAlphabet == {"a", " "}
\* The characters segmenter inputs are drawn from.
SegAlphabet == {"a", " ", "\t", ","}
\* The scenario input of the punctuation-aware splitter.
HelloWorld == "Hello, world!"

RECURSIVE TextsUpTo(_, _)
\* Every string over alphabet of length at most n.
TextsUpTo(alphabet, n) ==
    IF n = 0 THEN {""}
    ELSE LET shorter == TextsUpTo(alphabet, n - 1)
         IN  shorter \cup {c \o t : c \in alphabet, t \in shorter}

\* str.isspace(): non-empty and every character is whitespace.
isspace(s) ==
    /\ Len(s) > 0
    /\ \A i \in 1..Len(s) : SubSeq(s, i, i) \in Whitespace

\* ------------------------------------------------- character-chunk splitter
\* Lines 62-67 and 74-78: a run longer than 3 becomes a 2-character head and
\* the remainder, a shorter run stays one token.
gpt2_split_run(current_token) ==
    IF Len(current_token) > 3
    THEN <<SubSeq(current_token, 1, 2),
           SubSeq(current_token, 3, Len(current_token))>>
    ELSE <<current_token>>

RECURSIVE gpt2_scan(_, _, _, _)
\* The for loop of the fallback (lines 58-71), from character i on; returns
\* <<tokens, current_token>> as they are when the loop ends.
gpt2_scan(text, i, tokens, current_token) ==
    IF i > Len(text) THEN <<tokens, current_token>>
    ELSE LET char == SubSeq(text, i, i) IN
         IF isspace(char)
         THEN gpt2_scan(text, i + 1,
                        Append(IF current_token # ""
                               THEN tokens \o gpt2_split_run(current_token)
                               ELSE tokens,
                               char),
                        "")
         ELSE gpt2_scan(text, i + 1, tokens, current_token \o char)

\* gpt2_fallback with the end-of-input flush splitting only runs longer than 4.
gpt2_fallback_threshold(text) ==
    LET scanned == gpt2_scan(text, 1, <<>>, "")
        tokens  == IF scanned[2] = "" THEN scanned[1]
                   ELSE IF Len(scanned[2]) > 4
                        THEN scanned[1] \o <<SubSeq(scanned[2], 1, 2),
                                             SubSeq(scanned[2], 3, Len(scanned[2]))>>
                        ELSE Append(scanned[1], scanned[2])
    IN  IF tokens # <<>> THEN tokens ELSE <<"[Tokenization failed]">>

\* The except branch of tokenize_gpt2 (lines 55-80).
gpt2_fallback(text) ==
    LET scanned == gpt2_scan(text, 1, <<>>, "")
        tokens  == IF scanned[2] # ""
                   THEN scanned[1] \o gpt2_split_run(scanned[2])
                   ELSE scanned[1]
    IN  IF tokens # <<>> THEN tokens ELSE <<"[Tokenization failed]">>

\* ---------------------------------------------- punctuation-aware splitter
RECURSIVE t5_scan(_, _, _, _)
\* The for loop of tokenize_t5 (lines 97-109).
t5_scan(text, i, tokens, current_token) ==
    IF i > Len(text) THEN <<tokens, current_token>>
    ELSE LET char == SubSeq(text, i, i) IN
         IF isspace(char) \/ char \in T5Punctuation
         THEN t5_scan(text, i + 1,
                      Append(IF current_token # ""
                             THEN Append(tokens, current_token)
                             ELSE tokens,
                             char),
                      "")
         ELSE t5_scan(text, i + 1, tokens, current_token \o char)

\* Line 115: every token that is not whitespace gets the marker.
t5_prefix(tokens) ==
    [k \in 1..Len(tokens) |->
        IF ~isspace(tokens[k]) THEN Marker \o tokens[k] ELSE tokens[k]]

\* t5_scan with whitespace consumed instead of emitted.
RECURSIVE t5_scan_dropspace(_, _, _, _)
t5_scan_dropspace(text, i, tokens, current_token) ==
    IF i > Len(text) THEN <<tokens, current_token>>
    ELSE LET char == SubSeq(text, i, i)
             flushed == IF current_token # ""
                        THEN Append(tokens, current_token) ELSE tokens
         IN  IF isspace(char)
             THEN t5_scan_dropspace(text, i + 1, flushed, "")
             ELSE IF char \in T5Punctuation
             THEN t5_scan_dropspace(text, i + 1, Append(flushed, char), "")
             ELSE t5_scan_dropspace(text, i + 1, tokens, current_token \o char)

\* tokenize_t5 over t5_scan_dropspace.
tokenize_t5_dropspace(text) ==
    LET scanned == t5_scan_dropspace(text, 1, <<>>, "")
    IN  t5_prefix(IF scanned[2] # "" THEN Append(scanned[1], scanned[2])
                  ELSE scanned[1])

\* tokenize_t5 with the marker on word tokens only, punctuation left bare.
tokenize_t5_wordsonly(text) ==
    LET scanned == t5_scan(text, 1, <<>>, "")
        tokens  == IF scanned[2] # "" THEN Append(scanned[1], scanned[2])
                   ELSE scanned[1]
    IN  [k \in 1..Len(tokens) |->
            IF ~isspace(tokens[k]) /\ tokens[k] \notin T5Punctuation
            THEN Marker \o tokens[k] ELSE tokens[k]]

\* tokenize_t5 (lines 83-117).
tokenize_t5(text) ==
    LET scanned == t5_scan(text, 1, <<>>, "")
    IN  t5_prefix(IF scanned[2] # "" THEN Append(scanned[1], scanned[2])
                  ELSE scanned[1])

\* ------------------------------------------------- the external resources
\* The exception classes a primary call raises here: one per way the
\* libraries fail (no network, files not cached, a missing dependency, a text
\* the encoder refuses).  The except clauses also name RuntimeError, which
\* every adapter treats as it treats ImportError.
Exceptions == {"ImportError", "ConnectionError", "OSError", "ValueError"}

\* isinstance(exc, cls) for those classes: ConnectionError is a subclass of
\* OSError, the others are unrelated.
IsInstance(exc, cls) ==
    \/ exc = cls
    \/ exc = "ConnectionError" /\ cls = "OSError"

\* An except clause naming handlers catches exc.
Caught(exc, handlers) == \E cls \in handlers : IsInstance(exc, cls)

\* The vocabulary of a resource: token id k is the string "t<k>".
Vocab == [k \in 1..MaxTokens |-> "t" \o ToString(k)]

\* encoding.decode([token]) / convert_ids_to_tokens: ids to token strings.
decode(ids) == [k \in 1..Len(ids) |-> Vocab[ids[k]]]

NotCalled == [kind |-> "notcalled", ids |-> <<>>, exc |-> "none"]

\* What a primary call can do: return ids (none, or MaxTokens of them),
\* raise, or (a tokenizer load) return None.
PrimaryOutcomes ==
    {[kind |-> "ok", ids |-> <<>>, exc |-> "none"],
     [kind |-> "ok", ids |-> [k \in 1..MaxTokens |-> k], exc |-> "none"]}
    \cup {[kind |-> "raise", ids |-> <<>>, exc |-> e] : e \in Exceptions}

Llama2Outcomes ==
    PrimaryOutcomes \cup {[kind |-> "null", ids |-> <<>>, exc |-> "none"]}

\* ------------------------------------------------------------ the adapters
\* An adapter's result: the token list it returns, or the exception that
\* leaves it; primary counts the primary calls it made.
Return(tokens, primary) ==
    [raised |-> FALSE, exc |-> "none", tokens |-> tokens, primary |-> primary,
     fallback |-> FALSE]
Raise(exc) ==
    [raised |-> TRUE, exc |-> exc, tokens |-> <<>>, primary |-> 1,
     fallback |-> FALSE]
ToFallback ==
    [raised |-> FALSE, exc |-> "none", tokens |-> <<>>, primary |-> 1,
     fallback |-> TRUE]

\* Line 52.
Gpt2Handlers == {"ImportError", "ConnectionError", "RuntimeError", "OSError"}
\* Line 144.
Gpt4Handlers == {"OSError", "ValueError", "ImportError", "RuntimeError",
                 "ConnectionError"}
\* Line 131.
BertHandlers == {"OSError", "ValueError", "ImportError", "RuntimeError"}
\* Line 165.
Phi3Handlers == {"OSError", "ValueError", "ImportError", "RuntimeError"}
\* Line 191.
Llama2Handlers == {"OSError", "ValueError", "ImportError", "RuntimeError"}

\* gpt2_primary answering a caught failure with the sentinel, no fallback.
gpt2_primary_sentinel(o) ==
    IF o.kind = "raise"
    THEN IF Caught(o.exc, Gpt2Handlers)
         THEN Return(<<"[Tokenization failed]">>, 1) ELSE Raise(o.exc)
    ELSE Return(decode(o.ids), 1)

\* The try block of tokenize_gpt2 (lines 46-52): the token strings, or the
\* way into the except branch, or an exception the clause does not name.
gpt2_primary(o) ==
    IF o.kind = "raise"
    THEN IF Caught(o.exc, Gpt2Handlers) THEN ToFallback ELSE Raise(o.exc)
    ELSE Return(decode(o.ids), 1)

\* tokenize_gpt4 (lines 135-145).
tokenize_gpt4(text, o) ==
    IF o.kind = "raise"
    THEN IF Caught(o.exc, Gpt4Handlers)
         THEN Return(<<"[GPT-4 tokenization failed: Encoding not available offline]">>, 1)
         ELSE Raise(o.exc)
    ELSE LET token_strings == decode(o.ids)
         IN  Return(IF token_strings # <<>> THEN token_strings
                    ELSE <<"[Empty tokenization]">>, 1)

\* tokenize_bert without the TRANSFORMERS_AVAILABLE guard.
tokenize_bert_noguard(text, available, o) ==
    IF o.kind = "raise"
    THEN IF Caught(o.exc, BertHandlers)
         THEN Return(<<"[BERT tokenization failed: Model not available offline]">>, 1)
         ELSE Raise(o.exc)
    ELSE LET tokens == decode(o.ids)
         IN  Return(IF tokens # <<>> THEN tokens
                    ELSE <<"[Empty tokenization]">>, 1)

\* tokenize_bert with a sentinel that does not name BERT.
tokenize_bert_generic(text, available, o) ==
    IF ~available THEN Return(<<"[Transformers library not available]">>, 0)
    ELSE IF o.kind = "raise"
    THEN IF Caught(o.exc, BertHandlers)
         THEN Return(<<"[Tokenization failed]">>, 1)
         ELSE Raise(o.exc)
    ELSE LET tokens == decode(o.ids)
         IN  Return(IF tokens # <<>> THEN tokens
                    ELSE <<"[Empty tokenization]">>, 1)

\* tokenize_bert (lines 120-132).
tokenize_bert(text, available, o) ==
    IF ~available THEN Return(<<"[Transformers library not available]">>, 0)
    ELSE IF o.kind = "raise"
    THEN IF Caught(o.exc, BertHandlers)
         THEN Return(<<"[BERT tokenization failed: Model not available offline]">>, 1)
         ELSE Raise(o.exc)
    ELSE LET tokens == decode(o.ids)
         IN  Return(IF tokens # <<>> THEN tokens
                    ELSE <<"[Empty tokenization]">>, 1)

\* tokenize_phi3 (lines 148-166).
tokenize_phi3(text, available, o) ==
    IF ~available THEN Return(<<"[Transformers library not available]">>, 0)
    ELSE IF o.kind = "raise"
    THEN IF Caught(o.exc, Phi3Handlers)
         THEN Return(<<"[Phi-3 tokenization failed: Model not available offline]">>, 1)
         ELSE Raise(o.exc)
    ELSE LET tokens == decode(o.ids)
         IN  Return(IF tokens # <<>> THEN tokens
                    ELSE <<"[Empty tokenization]">>, 1)

\* Line 188: the token with its id in a bracketed suffix.
llama2_format(token, token_id) == token \o " [" \o ToString(token_id) \o "]"

\* tokenize_llama2 (lines 169-192).
tokenize_llama2(text, available, o) ==
    IF ~available THEN Return(<<"[Transformers library not available]">>, 0)
    ELSE IF o.kind = "raise"
    THEN IF Caught(o.exc, Llama2Handlers)
         THEN Return(<<"[LLaMA 2 tokenization failed: Model not available offline]">>, 1)
         ELSE Raise(o.exc)
    ELSE IF o.kind = "null"
    THEN Return(<<"[LLaMA 2 tokenization failed: Model not available offline]">>, 1)
    ELSE LET tokens        == decode(o.ids)
             token_ids     == o.ids
             result_tokens == [k \in 1..Len(tokens) |->
                                  llama2_format(tokens[k], token_ids[k])]
         IN  Return(IF result_tokens # <<>> THEN result_tokens
                    ELSE <<"[Empty tokenization]">>, 1)

\* ----------------------------------------------------- the colouring
\* The lowest and highest channel value of generate_random_color.
ColorMin == 150
ColorMax == 255

\* The module-level generator behind random.randint, as a state that each
\* draw advances; its state when a request arrives is any of Seeds.
Seeds == {0, 77}
Advance(s) == (5 * s + 3) % 256

RECURSIVE StateAfter(_, _)
\* The generator's state after n draws from state s.
StateAfter(s, n) == IF n = 0 THEN s ELSE StateAfter(Advance(s), n - 1)

\* random.randint(lo, hi) drawn in state s.
randint(lo, hi, s) == lo + (s % (hi - lo + 1))

\* generate_random_color (lines 35-41) in state s; it draws three times.
generate_random_color(s) ==
    LET r == randint(ColorMin, ColorMax, s)
        g == randint(ColorMin, ColorMax, Advance(s))
        b == randint(ColorMin, ColorMax, Advance(Advance(s)))
    IN  "rgb(" \o ToString(r) \o ", " \o ToString(g) \o ", " \o ToString(b) \o ")"

\* create_colored_tokens losing the last token.
create_colored_tokens_droplast(tokens, s) ==
    [k \in 1..(Len(tokens) - 1) |->
        [text |-> tokens[k], color |-> generate_random_color(StateAfter(s, 3 * (k - 1)))]]

\* create_colored_tokens (lines 195-207), the generator in state s at entry.
create_colored_tokens(tokens, s) ==
    [k \in 1..Len(tokens) |->
        [text  |-> tokens[k],
         color |-> generate_random_color(StateAfter(s, 3 * (k - 1)))]]

\* ------------------------------------------------------ the request handler
\* The backends in the order tokenize() calls their adapters (lines 229-234),
\* which is also the order of the keys of results (lines 237-274).
Backends == <<"gpt2", "gpt4", "bert", "t5", "llama2", "phi3">>
BackendSet == {Backends[k] : k \in 1..Len(Backends)}

\* The 'name' of each entry of results.
DisplayName ==
    [b \in BackendSet |->
        CASE b = "gpt2"   -> "GPT-2/GPT-3"
          [] b = "gpt4"   -> "GPT-4"
          [] b = "bert"   -> "BERT"
          [] b = "t5"     -> "T5/UL2"
          [] b = "llama2" -> "LLaMA 2"
          [] b = "phi3"   -> "Phi-3"]

VARIABLES
    TRANSFORMERS_AVAILABLE, \* set at import (lines 22-30)
    text,                   \* the request's text
    pc,                     \* where the handler or the segmenter run is
    outcome,                \* per backend, what its primary call did
    calls,                  \* per backend, how often its adapter was invoked
    primaryCalls,           \* per backend, how often its primary was attempted
    fallbackRuns,           \* per backend, how often a fallback segmenter ran
    tokens,                 \* per backend, the token list its adapter returned
    returned,               \* the backends whose adapter has returned
    response,               \* the entries of results, in key order
    status                  \* HTTP status of the reply (0: none yet)

vars == <<TRANSFORMERS_AVAILABLE, text, pc, outcome, calls, primaryCalls,
          fallbackRuns, tokens, returned, response, status>>

RECURSIVE TokensBefore(_, _)
\* How many tokens the entries before the k-th hold.
TokensBefore(toks, k) ==
    IF k <= 1 THEN 0
    ELSE TokensBefore(toks, k - 1) + Len(toks[Backends[k - 1]])

\* The dict results (lines 237-274) built from the six token lists, the
\* generator in state seed before the first colour is drawn.
results(toks, seed) ==
    [k \in 1..Len(Backends) |->
        [id     |-> Backends[k],
         name   |-> DisplayName[Backends[k]],
         tokens |-> create_colored_tokens(toks[Backends[k]],
                        StateAfter(seed, 3 * TokensBefore(toks, k))),
         count  |-> Len(toks[Backends[k]])]]

Init ==
    /\ TRANSFORMERS_AVAILABLE \in BOOLEAN
    /\ text \in TextsUpTo(RequestAlphabet, MaxTextLen)
    /\ pc = "start"
    /\ outcome = [b \in BackendSet |-> NotCalled]
    /\ calls = [b \in BackendSet |-> 0]
    /\ primaryCalls = [b \in BackendSet |-> 0]
    /\ fallbackRuns = [b \in BackendSet |-> 0]
    /\ tokens = [b \in BackendSet |-> <<>>]
    /\ returned = {}
    /\ response = <<>>
    /\ status = 0

\* Lines 222-226: an empty text is answered 400 and no adapter runs.
Receive ==
    /\ pc = "start"
    /\ IF text = ""
       THEN pc' = "rejected" /\ status' = 400
       ELSE pc' = "gpt2" /\ status' = status
    /\ UNCHANGED <<TRANSFORMERS_AVAILABLE, text, outcome, calls, primaryCalls,
                   fallbackRuns, tokens, returned, response>>

\* Backend b's adapter, called with primary outcome o, ended as r: the
\* handler goes on to next, or the exception leaves tokenize() (HTTP 500).
Called(b, o, r, next) ==
    /\ calls' = [calls EXCEPT ![b] = @ + 1]
    /\ primaryCalls' = [primaryCalls EXCEPT ![b] = @ + r.primary]
    /\ outcome' = [outcome EXCEPT ![b] = IF r.primary > 0 THEN o ELSE @]
    /\ IF r.raised
       THEN /\ pc' = "aborted"
            /\ status' = 500
            /\ UNCHANGED <<tokens, returned>>
       ELSE /\ pc' = next
            /\ status' = status
            /\ tokens' = [tokens EXCEPT ![b] = r.tokens]
            /\ returned' = returned \cup {b}
    /\ UNCHANGED <<TRANSFORMERS_AVAILABLE, text, fallbackRuns, response>>

\* Line 229, the try block of tokenize_gpt2.
Gpt2Primary ==
    /\ pc = "gpt2"
    /\ \E o \in PrimaryOutcomes :
         LET r == gpt2_primary(o) IN
         /\ calls' = [calls EXCEPT !["gpt2"] = @ + 1]
         /\ primaryCalls' = [primaryCalls EXCEPT !["gpt2"] = @ + r.primary]
         /\ outcome' = [outcome EXCEPT !["gpt2"] = o]
         /\ IF r.raised
            THEN /\ pc' = "aborted"
                 /\ status' = 500
                 /\ UNCHANGED <<tokens, returned>>
            ELSE IF r.fallback
            THEN /\ pc' = "gpt2_fallback"
                 /\ UNCHANGED <<status, tokens, returned>>
            ELSE /\ pc' = "gpt4"
                 /\ status' = status
                 /\ tokens' = [tokens EXCEPT !["gpt2"] = r.tokens]
                 /\ returned' = returned \cup {"gpt2"}
    /\ UNCHANGED <<TRANSFORMERS_AVAILABLE, text, fallbackRuns, response>>

\* The except branch of tokenize_gpt2.
Gpt2Fallback ==
    /\ pc = "gpt2_fallback"
    /\ fallbackRuns' = [fallbackRuns EXCEPT !["gpt2"] = @ + 1]
    /\ tokens' = [tokens EXCEPT !["gpt2"] = gpt2_fallback(text)]
    /\ returned' = returned \cup {"gpt2"}
    /\ pc' = "gpt4"
    /\ UNCHANGED <<TRANSFORMERS_AVAILABLE, text, outcome, calls, primaryCalls,
                   response, status>>

\* Line 230.
Gpt4 ==
    /\ pc = "gpt4"
    /\ \E o \in PrimaryOutcomes :
         Called("gpt4", o, tokenize_gpt4(text, o), "bert")

\* Line 231.
Bert ==
    /\ pc = "bert"
    /\ \E o \in PrimaryOutcomes :
         Called("bert", o, tokenize_bert(text, TRANSFORMERS_AVAILABLE, o), "t5")

\* Line 232: tokenize_t5 has no primary call.
T5 ==
    /\ pc = "t5"
    /\ calls' = [calls EXCEPT !["t5"] = @ + 1]
    /\ fallbackRuns' = [fallbackRuns EXCEPT !["t5"] = @ + 1]
    /\ tokens' = [tokens EXCEPT !["t5"] = tokenize_t5(text)]
    /\ returned' = returned \cup {"t5"}
    /\ pc' = "llama2"
    /\ UNCHANGED <<TRANSFORMERS_AVAILABLE, text, outcome, primaryCalls,
                   response, status>>

\* Line 233.
Llama2 ==
    /\ pc = "llama2"
    /\ \E o \in Llama2Outcomes :
         Called("llama2", o, tokenize_llama2(text, TRANSFORMERS_AVAILABLE, o),
                "phi3")

\* Line 234.
Phi3 ==
    /\ pc = "phi3"
    /\ \E o \in PrimaryOutcomes :
         Called("phi3", o, tokenize_phi3(text, TRANSFORMERS_AVAILABLE, o),
                "respond")

\* Lines 237-276: results is built and returned.
Respond ==
    /\ pc = "respond"
    /\ \E seed \in Seeds : response' = results(tokens, seed)
    /\ status' = 200
    /\ pc' = "done"
    /\ UNCHANGED <<TRANSFORMERS_AVAILABLE, text, outcome, calls, primaryCalls,
                   fallbackRuns, tokens, returned>>

Next ==
    \/ Receive
    \/ Gpt2Primary
    \/ Gpt2Fallback
    \/ Gpt4
    \/ Bert
    \/ T5
    \/ Llama2
    \/ Phi3
    \/ Respond

Spec == Init /\ [][Next]_vars

\* --------------------------------------------- the segmenters on their own
\* The two hand-written segmenters applied to a text, each once, in either
\* order: the except branch of tokenize_gpt2 and tokenize_t5.
SegInit ==
    /\ TRANSFORMERS_AVAILABLE = FALSE
    /\ text \in TextsUpTo(SegAlphabet, MaxSegLen) \cup {HelloWorld}
    /\ pc = "segment"
    /\ outcome = [b \in BackendSet |-> NotCalled]
    /\ calls = [b \in BackendSet |-> 0]
    /\ primaryCalls = [b \in BackendSet |-> 0]
    /\ fallbackRuns = [b \in BackendSet |-> 0]
    /\ tokens = [b \in BackendSet |-> <<>>]
    /\ returned = {}
    /\ response = <<>>
    /\ status = 0

SegGpt2Fallback ==
    /\ pc = "segment"
    /\ "gpt2" \notin returned
    /\ fallbackRuns' = [fallbackRuns EXCEPT !["gpt2"] = @ + 1]
    /\ tokens' = [tokens EXCEPT !["gpt2"] = gpt2_fallback(text)]
    /\ returned' = returned \cup {"gpt2"}
    /\ UNCHANGED <<TRANSFORMERS_AVAILABLE, text, pc, outcome, calls,
                   primaryCalls, response, status>>

SegT5 ==
    /\ pc = "segment"
    /\ "t5" \notin returned
    /\ fallbackRuns' = [fallbackRuns EXCEPT !["t5"] = @ + 1]
    /\ tokens' = [tokens EXCEPT !["t5"] = tokenize_t5(text)]
    /\ returned' = returned \cup {"t5"}
    /\ UNCHANGED <<TRANSFORMERS_AVAILABLE, text, pc, outcome, calls,
                   primaryCalls, response, status>>

SegNext == SegGpt2Fallback \/ SegT5

SegSpec == SegInit /\ [][SegNext]_vars

\* ------------------------------------------------------------ properties
RECURSIVE Concat(_)
\* The token texts joined in order.
Concat(toks) == IF toks = <<>> THEN "" ELSE Head(toks) \o Concat(Tail(toks))

RECURSIVE SumLen(_, _)
SumLen(toks, k) == IF k = 0 THEN 0 ELSE SumLen(toks, k - 1) + Len(toks[k])

\* The position in the joined text at which token k starts.
Offset(toks, k) == 1 + SumLen(toks, k - 1)

CharAt(s, i) == SubSeq(s, i, i)

\* Characters i..j of s are a maximal run of non-whitespace characters.
IsRun(s, i, j) ==
    /\ 1 <= i /\ i <= j /\ j <= Len(s)
    /\ \A p \in i..j : ~isspace(CharAt(s, p))
    /\ i = 1 \/ isspace(CharAt(s, i - 1))
    /\ j = Len(s) \/ isspace(CharAt(s, j + 1))

\* The run i..j of s is emitted in toks by the length-3 rule: two tokens, a
\* 2-character head and the rest, when longer than 3, else one token.
RunChunked(s, toks, i, j) ==
    \E k \in 1..Len(toks) :
        /\ Offset(toks, k) = i
        /\ IF j - i + 1 > 3
           THEN /\ k + 1 <= Len(toks)
                /\ toks[k] = SubSeq(s, i, i + 1)
                /\ toks[k + 1] = SubSeq(s, i + 2, j)
                /\ Len(toks[k + 1]) >= 2
           ELSE toks[k] = SubSeq(s, i, j)

\* toks is the character-chunk segmentation of the non-empty text s: the
\* tokens join to s, every whitespace character is a token of its own and
\* every run is chunked.
IsCharChunking(s, toks) ==
    /\ Concat(toks) = s
    /\ \A k \in 1..Len(toks) :
          \/ isspace(toks[k]) /\ Len(toks[k]) = 1
          \/ \A p \in 1..Len(toks[k]) : ~isspace(CharAt(toks[k], p))
    /\ \A i \in 1..Len(s) : \A j \in i..Len(s) :
          IsRun(s, i, j) => RunChunked(s, toks, i, j)

\* The entry of the response for backend b.
Entry(b) == response[CHOOSE k \in 1..Len(Backends) : Backends[k] = b]

Finished == pc \in {"done", "aborted"}

\* The failure class of an exception a resource raises: offline or network
\* (ResourceUnavailable), files not present (ResourceMissing), library or
\* runtime unsupported (UnsupportedRuntime), text rejected (InputRejected).
FailureClass(exc) ==
    CASE exc = "ConnectionError" -> "ResourceUnavailable"
      [] exc = "OSError"         -> "ResourceMissing"
      [] exc = "ImportError"     -> "UnsupportedRuntime"
      [] exc = "ValueError"      -> "InputRejected"

\* C1: for every adapter and every non-empty text, the returned token
\* sequence holds at least one token, whatever the primary call did.
C1_NeverEmpty ==
    \A b \in returned : text # "" => Len(tokens[b]) >= 1

\* C2: a failure of any of the four classes raised by a backend's resource
\* is caught inside the adapter and turned into a token list: it never
\* reaches tokenize(), and the request still answers with all six results.
C2_FailureContained ==
    \A b \in BackendSet :
        (/\ outcome[b].kind = "raise"
         /\ FailureClass(outcome[b].exc) \in
               {"ResourceUnavailable", "ResourceMissing",
                "UnsupportedRuntime", "InputRejected"})
        => /\ pc # "aborted"
           /\ status # 500
           /\ pc # "gpt2_fallback" => b \in returned
           /\ pc = "done" => Len(response) = Len(Backends)

\* C3 as stated: tokenize_t5("Hello, world!") is the four tokens
\* marker+Hello, ",", marker+world, "!".
C3_HelloWorldAsStated ==
    (text = HelloWorld /\ "t5" \in returned)
    => tokens["t5"] = <<Marker \o "Hello", ",", Marker \o "world", "!">>

\* C3 as amended: tokenize_t5("Hello, world!") is the five tokens
\* marker+Hello, marker+",", " ", marker+world, marker+"!": every token that
\* is not whitespace carries the marker, punctuation included, and the space
\* is a token of its own without the marker.
C3_HelloWorldActual ==
    (text = HelloWorld /\ "t5" \in returned)
    => tokens["t5"] = <<Marker \o "Hello", Marker \o ",", " ",
                        Marker \o "world", Marker \o "!">>

C3_Witness == text = HelloWorld /\ "t5" \in returned /\ Len(tokens["t5"]) = 5

\* C4: in the character-chunk splitter every maximal run of non-whitespace
\* characters longer than 3 is emitted as exactly two consecutive tokens, its
\* first 2 characters and a remainder of length at least 2, and every run of
\* length 1 to 3 as one token equal to the run, whether the run is ended by
\* whitespace or by the end of the input.
C4_RunsChunked ==
    "gpt2" \in returned
    => \A i \in 1..Len(text) : \A j \in i..Len(text) :
          IsRun(text, i, j) => RunChunked(text, tokens["gpt2"], i, j)

\* A long run ended by whitespace and a run flushed at the end of the input.
C4_Witness ==
    /\ "gpt2" \in returned
    /\ \E j \in 4..(Len(text) - 1) : IsRun(text, j - 3, j)
    /\ \E i \in 1..Len(text) : IsRun(text, i, Len(text))

\* The token without its leading marker, if it has one.
StripMarker(tok) ==
    IF Len(tok) >= 1 /\ CharAt(tok, 1) = Marker
    THEN SubSeq(tok, 2, Len(tok)) ELSE tok

\* C5: for tokenize_t5 and a text of word characters, whitespace and the
\* punctuation . , ! ? ; :, the tokens with the leading marker removed join
\* to the text.
C5_ConcatReconstructs ==
    "t5" \in returned
    => Concat([k \in 1..Len(tokens["t5"]) |-> StripMarker(tokens["t5"][k])])
       = text

C5_Witness ==
    /\ "t5" \in returned
    /\ text = "a, a\ta"
    /\ Len(tokens["t5"]) = 6

\* The backends for which a failed primary call is terminal, each with the
\* sentinel that names it and the failure.
UnavailableSentinel ==
    [b \in {"gpt4", "bert", "phi3", "llama2"} |->
        CASE b = "gpt4"   -> "[GPT-4 tokenization failed: Encoding not available offline]"
          [] b = "bert"   -> "[BERT tokenization failed: Model not available offline]"
          [] b = "phi3"   -> "[Phi-3 tokenization failed: Model not available offline]"
          [] b = "llama2" -> "[LLaMA 2 tokenization failed: Model not available offline]"]

\* What an unavailable resource raises: the network error of a download
\* (ConnectionError) or the OSError of a model that is not cached.
UnavailableExceptions == {"ConnectionError", "OSError"}

\* C6: when the primary resource of gpt4, bert, phi3 or llama2 is
\* unavailable, the adapter returns exactly one token, the sentinel naming
\* the backend and the failure, and the response's count for it is 1.
C6_UnavailableIsOneSentinel ==
    \A b \in DOMAIN UnavailableSentinel :
        (/\ outcome[b].kind = "raise"
         /\ outcome[b].exc \in UnavailableExceptions)
        => /\ b \in returned
           /\ tokens[b] = <<UnavailableSentinel[b]>>
           /\ pc = "done" => (Entry(b).count = 1 /\ Len(Entry(b).tokens) = 1)

C6_Witness ==
    /\ pc = "done"
    /\ outcome["gpt4"].exc = "ConnectionError"
    /\ outcome["bert"].exc = "OSError"
    /\ outcome["llama2"].exc = "ConnectionError"
    /\ outcome["phi3"].exc = "OSError"

\* C7: for every accepted text tokenize() invokes each of the six adapters
\* exactly once and the response lists the backends in the configured order.
C7_EachAdapterOnceInOrder ==
    (text # "" /\ Finished)
    => /\ \A b \in BackendSet : calls[b] = 1
       /\ [k \in 1..Len(response) |-> response[k].id] = Backends

\* C8: in the response every backend's count is the length of the token
\* list its adapter returned, and its coloured list has that length, the
\* i-th entry's text the i-th token and one colour per token.
C8_CountAndColouring ==
    pc = "done"
    => \A b \in BackendSet :
          /\ Entry(b).count = Len(tokens[b])
          /\ Len(Entry(b).tokens) = Len(tokens[b])
          /\ \A i \in 1..Len(tokens[b]) :
                /\ Entry(b).tokens[i].text = tokens[b][i]
                /\ DOMAIN Entry(b).tokens[i] = {"text", "color"}

C8_Witness ==
    /\ pc = "done"
    /\ Entry("gpt2").count = 2
    /\ Entry("gpt2").tokens[1].text # Entry("gpt2").tokens[2].text
    /\ Entry("gpt2").tokens[1].color # Entry("gpt2").tokens[2].color

\* C9: with TRANSFORMERS_AVAILABLE false, tokenize_bert, tokenize_phi3 and
\* tokenize_llama2 return the one sentinel "[Transformers library not
\* available]" without a primary call and without a fallback segmenter.
C9_NoTransformersShortCircuits ==
    ~TRANSFORMERS_AVAILABLE
    => \A b \in {"bert", "phi3", "llama2"} :
          /\ primaryCalls[b] = 0
          /\ fallbackRuns[b] = 0
          /\ outcome[b] = NotCalled
          /\ b \in returned
             => tokens[b] = <<"[Transformers library not available]">>

C9_Witness ==
    /\ ~TRANSFORMERS_AVAILABLE
    /\ pc = "done"
    /\ {"bert", "phi3", "llama2"} \subseteq returned

\* The exception classes tokenize_gpt2 recovers from.
Gpt2Recoverable == {"ImportError", "ConnectionError", "RuntimeError", "OSError"}

\* C10: in tokenize_gpt2 the character-chunk splitter runs only after the
\* primary call failed with a recoverable class, the primary is attempted
\* exactly once, a successful primary's token list is returned unchanged,
\* and after a recoverable failure the result is the splitter's output for
\* the text, never the sentinel "[Tokenization failed]".
C10_Gpt2StateMachine ==
    /\ primaryCalls["gpt2"] <= 1
    /\ pc \notin {"start", "rejected", "gpt2"} => primaryCalls["gpt2"] = 1
    /\ fallbackRuns["gpt2"] <= 1
    /\ fallbackRuns["gpt2"] = 1
       => (outcome["gpt2"].kind = "raise"
           /\ outcome["gpt2"].exc \in Gpt2Recoverable)
    /\ outcome["gpt2"].kind = "ok"
       => ("gpt2" \in returned /\ fallbackRuns["gpt2"] = 0
           /\ tokens["gpt2"] = decode(outcome["gpt2"].ids))
    /\ (/\ outcome["gpt2"].kind = "raise"
        /\ outcome["gpt2"].exc \in Gpt2Recoverable
        /\ pc # "gpt2_fallback")
       => /\ "gpt2" \in returned
          /\ fallbackRuns["gpt2"] = 1
          /\ tokens["gpt2"] # <<"[Tokenization failed]">>
          /\ IsCharChunking(text, tokens["gpt2"])

C10_Witness ==
    /\ pc = "done"
    /\ fallbackRuns["gpt2"] = 1
    /\ Len(tokens["gpt2"]) = 2

====
